---------------------------- MODULE Spec2Model ----------------------------
(***************************************************************************)
(* Model of the analysis scripts scripts/analysis/rootlets.py and          *)
(* scripts/analysis/T2starw_CSA.py.                                         *)
(*                                                                         *)
(* Numbers.  Coordinates and voxel sizes are integers.  np.sqrt is modelled *)
(* as a finite-precision square root: Sqrt(x) is the largest multiple of    *)
(* 1/SqrtScale that is not above the real square root, stored as the        *)
(* integer number of 1/SqrtScale units.  Every distance of the model is     *)
(* therefore an integer number of 1/SqrtScale units.                        *)
(*                                                                         *)
(* Arrays.  The 3xn numpy array centerline_points is the triple             *)
(* <<row0, row1, row2>> of sequences of length n.  Python indices start at  *)
(* 0, sequences at 1: Item(row, i) is python's row[i].                      *)
(***************************************************************************)
EXTENDS Integers, Sequences, FiniteSets, TLC

VARIABLES
    pc,                 \* position of the running script
    centerline_points,  \* rootlets.py: the 3xn centerline array
    z_index,            \* rootlets.py: reference (PMJ) index handed to get_distance_from_pmj
    spacing,            \* rootlets.py: <<px, py, pz>>
    point,              \* rootlets.py: query point of find_nearest_centerline_index
    labels,             \* rootlets.py: center_of_mass_coords, the label points still to look up
    result,             \* value returned (or error raised) by the last call
    result2,            \* value returned by the second call of a comparison of two calls
    files,              \* the files that exist (both scripts)
    log,                \* external tools invoked by the current main call, in order
    branch,             \* which side of the output-exists test the current main call took
    runs,               \* number of main calls started
    prev,               \* how the previous main call ended
    subject,            \* T2starw_CSA.py: subject of the current main call
    axis,               \* the coordinate axis a single-axis centerline moves along
    spacing2,           \* the voxel sizes of the second call of a comparison of two calls
    files0              \* the files that existed when the current main call started

vars == <<pc, centerline_points, z_index, spacing, point, labels, result, result2,
          files, log, branch, runs, prev, subject, axis, spacing2, files0>>

\* ------------------------------------------------------------------ bounds

\* Longest centerline.
MaxLen == 3
\* Resolution of the modelled square root: distances are in 1/SqrtScale units.
SqrtScale == 16
\* Coordinate values of centerline and query points.
Coord == {0, 1}
\* Voxel sizes.
Spacings == {1, 2}

\* ----------------------------------------------------------- numeric helpers

Abs(a) == IF a < 0 THEN -a ELSE a

RECURSIVE Newton(_, _)
Newton(n, x) ==
    LET y == (x + (n \div x)) \div 2
    IN  IF y >= x THEN x ELSE Newton(n, y)

\* Largest k with k*k <= n.
Isqrt(n) == IF n = 0 THEN 0 ELSE Newton(n, n)

\* np.sqrt, to the model's resolution.
Sqrt(x) == Isqrt(x * SqrtScale * SqrtScale)

\* Python's row[i] for an in-range non-negative i.
Item(row, i) == row[i + 1]

\* len of the second axis of the 3xn array.
NPoints(c) == Len(c[3])

\* Python's row[:stop]: a negative stop counts from the end, and the slice is
\* clipped to the row.
SliceStop(n, stop) ==
    IF stop < 0 THEN (IF stop + n < 0 THEN 0 ELSE stop + n)
    ELSE IF stop > n THEN n ELSE stop

SliceTo(row, stop) == SubSeq(row, 1, SliceStop(Len(row), stop))

\* arr_length[::-1] forgotten.
ReverseForgotten(s) == s

RECURSIVE Reverse(_)
Reverse(s) == IF s = <<>> THEN <<>> ELSE Append(Reverse(Tail(s)), Head(s))

\* ------------------------------------------------- get_distance_from_pmj

\* The voxel sizes of the first two axes applied to the wrong axes.
SegmentDistanceSwapped(c, i, px, py, pz) ==
    Sqrt(  ((c[1][i + 1] - c[1][i]) * py) * ((c[1][i + 1] - c[1][i]) * py)
         + ((c[2][i + 1] - c[2][i]) * px) * ((c[2][i + 1] - c[2][i]) * px)
         + ((c[3][i + 1] - c[3][i]) * pz) * ((c[3][i + 1] - c[3][i]) * pz))

\* The body of the loop: the physical length of the segment between points
\* i-1 and i.
SegmentDistance(c, i, px, py, pz) ==
    Sqrt(  ((Item(c[1], i) - Item(c[1], i - 1)) * px) * ((Item(c[1], i) - Item(c[1], i - 1)) * px)
         + ((Item(c[2], i) - Item(c[2], i - 1)) * py) * ((Item(c[2], i) - Item(c[2], i - 1)) * py)
         + ((Item(c[3], i) - Item(c[3], i - 1)) * pz) * ((Item(c[3], i) - Item(c[3], i - 1)) * pz))

\* length = distance instead of length += distance.
RECURSIVE DistanceLoopNoAccumulate(_, _, _, _, _, _, _)
DistanceLoopNoAccumulate(c, i, length, arr_length, px, py, pz) ==
    IF i <= 0 THEN [status |-> "ok", arr_length |-> arr_length]
    ELSE IF i >= Len(c[3]) THEN [status |-> "IndexError", arr_length |-> arr_length]
    ELSE LET l == Sqrt(  ((c[1][i + 1] - c[1][i]) * px) * ((c[1][i + 1] - c[1][i]) * px)
                       + ((c[2][i + 1] - c[2][i]) * py) * ((c[2][i + 1] - c[2][i]) * py)
                       + ((c[3][i + 1] - c[3][i]) * pz) * ((c[3][i + 1] - c[3][i]) * pz))
         IN  DistanceLoopNoAccumulate(c, i - 1, l, Append(arr_length, l), px, py, pz)

\* for i in range(z_index, 0, -1): the loop from i down to 1.  Reading
\* centerline_points[k, i] with i >= n raises IndexError.
RECURSIVE DistanceLoop(_, _, _, _, _, _, _)
DistanceLoop(c, i, length, arr_length, px, py, pz) ==
    IF i <= 0 THEN [status |-> "ok", arr_length |-> arr_length]
    ELSE IF i >= NPoints(c) THEN [status |-> "IndexError", arr_length |-> arr_length]
    ELSE LET l == length + SegmentDistance(c, i, px, py, pz)
         IN  DistanceLoop(c, i - 1, l, Append(arr_length, l), px, py, pz)

\* np.stack of two one-dimensional arrays: they must have the same shape.
Stack(a, b) ==
    IF Len(a) = Len(b) THEN [status |-> "ok", table |-> <<a, b>>]
    ELSE [status |-> "ValueError", table |-> <<>>]

get_distance_from_pmj(c, zi, px, py, pz) ==
    LET loop == DistanceLoop(c, zi, 0, <<0>>, px, py, pz)
    IN  IF loop.status # "ok" THEN [status |-> loop.status, table |-> <<>>]
        ELSE Stack(Reverse(loop.arr_length), SliceTo(c[3], zi + 1))

\* ------------------------------------------ find_nearest_centerline_index

\* np.linalg.norm(centerline_points.T - point, axis=1)[i]
Norm(c, i, p) ==
    Sqrt(  (Item(c[1], i) - p[1]) * (Item(c[1], i) - p[1])
         + (Item(c[2], i) - p[2]) * (Item(c[2], i) - p[2])
         + (Item(c[3], i) - p[3]) * (Item(c[3], i) - p[3]))

\* An argmin that keeps the last minimum it meets (<= instead of <).
ArgminLast(d) ==
    CHOOSE i \in 0..(Len(d) - 1) :
        /\ \A j \in 0..(Len(d) - 1) : d[i + 1] <= d[j + 1]
        /\ \A j \in (i + 1)..(Len(d) - 1) : d[j + 1] > d[i + 1]

\* np.argmin of a non-empty array: the first index of the minimum.
Argmin(d) ==
    CHOOSE i \in 0..(Len(d) - 1) :
        /\ \A j \in 0..(Len(d) - 1) : Item(d, i) <= Item(d, j)
        /\ \A j \in 0..(i - 1) : Item(d, j) > Item(d, i)

\* ndarray.argmax of a non-empty array: the first index of the maximum.
Argmax(d) ==
    CHOOSE i \in 0..(Len(d) - 1) :
        /\ \A j \in 0..(Len(d) - 1) : Item(d, i) >= Item(d, j)
        /\ \A j \in 0..(i - 1) : Item(d, j) < Item(d, i)

find_nearest_centerline_index(p, c) ==
    Argmin([k \in 1..NPoints(c) |-> Norm(c, k - 1, p)])

\* --------------------------------------------------- center_of_mass_to_PMJ

\* The loop over center_of_mass_coords: for each label point, the nearest
\* centerline index and centerline_dist[0, nearest], which raises IndexError
\* when nearest is not a column of the table.
RECURSIVE LookupLoop(_, _, _, _)
LookupLoop(coords, c, centerline_dist, results) ==
    IF coords = <<>> THEN [status |-> "ok", results |-> results]
    ELSE LET nearest == find_nearest_centerline_index(Head(coords), c)
         IN  IF nearest >= Len(centerline_dist[1])
             THEN [status |-> "IndexError", results |-> results]
             ELSE LookupLoop(Tail(coords), c, centerline_dist,
                             Append(results, [x |-> Head(coords)[1],
                                              y |-> Head(coords)[2],
                                              z |-> Head(coords)[3],
                                              nearest |-> nearest,
                                              distance_from_pmj_mm |->
                                                  Item(centerline_dist[1], nearest)]))

\* Lines 91-117: the PMJ index, the cumulative distance table and the loop.
DistancesToPMJ(coords, c, px, py, pz) ==
    LET pmj_index == Argmax(c[3])
        centerline_dist == get_distance_from_pmj(c, pmj_index, px, py, pz)
    IN  IF centerline_dist.status # "ok"
        THEN [status |-> centerline_dist.status, results |-> <<>>]
        ELSE LookupLoop(coords, c, centerline_dist.table, <<>>)

\* ------------------------------------------------------------ input sets

Rows(n) == [1..n -> Coord]

\* The 3xn arrays with n columns.
CenterlinesOfLen(n) == {<<xs, ys, zs>> : xs \in Rows(n), ys \in Rows(n), zs \in Rows(n)}

Centerlines == UNION {CenterlinesOfLen(n) : n \in 0..MaxLen}

Points == Coord \X Coord \X Coord

\* Query points may lie off the centerline's grid.
QueryCoord == Coord \cup {2}

QueryPoints == QueryCoord \X QueryCoord \X QueryCoord

VoxelSizes == Spacings \X Spacings \X Spacings

NoResult == [status |-> "none"]

\* No main call has ended yet.
NoPrev == [outcome |-> "none", branch |-> "none"]

\* The variables a specification does not use keep these values.
GeometryIdle ==
    /\ files = {}
    /\ log = <<>>
    /\ branch = "none"
    /\ runs = 0
    /\ prev = NoPrev
    /\ subject = "none"
    /\ files0 = {}

PipelineUnchanged == UNCHANGED <<files, log, branch, runs, prev, subject, files0>>

InputsUnchanged == UNCHANGED <<centerline_points, z_index, spacing, point, labels, axis, spacing2>>

\* ---------------------------------------- calls of get_distance_from_pmj

\* A caller hands get_distance_from_pmj any centerline, any integer index
\* and positive voxel sizes.
Init ==
    /\ pc = "input"
    /\ centerline_points \in Centerlines
    /\ z_index \in (-(NPoints(centerline_points) + 1))..(NPoints(centerline_points) + 1)
    /\ spacing \in VoxelSizes
    /\ point = <<0, 0, 0>>
    /\ labels = <<>>
    /\ axis = 0
    /\ spacing2 = spacing
    /\ result = NoResult
    /\ result2 = NoResult
    /\ GeometryIdle

GetDistance ==
    /\ pc = "input"
    /\ result' = get_distance_from_pmj(centerline_points, z_index,
                                        spacing[1], spacing[2], spacing[3])
    /\ pc' = "returned"
    /\ UNCHANGED result2
    /\ InputsUnchanged
    /\ PipelineUnchanged

Next == GetDistance

Spec == Init /\ [][Next]_vars

\* The length of the segment between points k-1 and k, as the documentation
\* of the computation states it: sqrt((dx*px)^2 + (dy*py)^2 + (dz*pz)^2).
StatedSegment(c, k, sp) ==
    LET dx == c[1][k + 1] - c[1][k]
        dy == c[2][k + 1] - c[2][k]
        dz == c[3][k + 1] - c[3][k]
    IN  Sqrt((dx * sp[1]) * (dx * sp[1]) + (dy * sp[2]) * (dy * sp[2])
             + (dz * sp[3]) * (dz * sp[3]))

\* The arc length from point i to point r (i <= r): the sum of the segments
\* i..i+1, ..., r-1..r.
RECURSIVE ArcLength(_, _, _, _)
ArcLength(c, i, r, sp) ==
    IF i >= r THEN 0 ELSE StatedSegment(c, i + 1, sp) + ArcLength(c, i + 1, r, sp)

InRange == NPoints(centerline_points) >= 1 /\ 0 <= z_index /\ z_index < NPoints(centerline_points)

\* C1: for a centerline of n >= 1 points, an index 0 <= r < n and positive
\* voxel sizes, get_distance_from_pmj returns a two-row table of r+1 columns
\* in increasing index order; row 0 at column i is the arc length from point
\* i to point r (so 0 at column r), row 1 at column i is the third coordinate
\* of point i.
C1_DistanceTable ==
    (pc = "returned" /\ InRange) =>
        /\ result.status = "ok"
        /\ Len(result.table) = 2
        /\ Len(result.table[1]) = z_index + 1
        /\ Len(result.table[2]) = z_index + 1
        /\ \A i \in 0..z_index :
              /\ Item(result.table[1], i) = ArcLength(centerline_points, i, z_index, spacing)
              /\ Item(result.table[2], i) = Item(centerline_points[3], i)
        /\ Item(result.table[1], z_index) = 0

\* C1 witness: a call with a reference index of at least 2 on a centerline
\* whose segments have different lengths has returned.
C1_Witness ==
    /\ pc = "returned"
    /\ InRange
    /\ z_index >= 2
    /\ result.status = "ok"
    /\ Item(result.table[1], 0) > Item(result.table[1], 1)
    /\ Item(result.table[1], 1) > 0
    /\ Item(result.table[1], 0) # 2 * Item(result.table[1], 1)

\* C9: a reference index outside 0..n-1, or an empty centerline, never
\* produces a distance table: the call raises.
C9_MalformedRaises ==
    (pc = "returned" /\ ~InRange) => result.status # "ok"

\* --------------------------------- calls of find_nearest_centerline_index

InitNearest ==
    /\ pc = "input"
    /\ centerline_points \in Centerlines
    /\ point \in QueryPoints
    /\ z_index = 0
    /\ spacing = <<1, 1, 1>>
    /\ labels = <<>>
    /\ axis = 0
    /\ spacing2 = spacing
    /\ result = NoResult
    /\ result2 = NoResult
    /\ GeometryIdle

\* np.argmin raises ValueError on an empty array.
FindNearest ==
    /\ pc = "input"
    /\ result' = IF NPoints(centerline_points) = 0
                    THEN [status |-> "ValueError", index |-> -1]
                    ELSE [status |-> "ok",
                          index |-> find_nearest_centerline_index(point, centerline_points)]
    /\ pc' = "returned"
    /\ UNCHANGED result2
    /\ InputsUnchanged
    /\ PipelineUnchanged

NextNearest == FindNearest

SpecNearest == InitNearest /\ [][NextNearest]_vars

\* The squared raw Euclidean distance between centerline point i and p.
SquaredDistance(c, i, p) ==
    (c[1][i + 1] - p[1]) * (c[1][i + 1] - p[1])
    + (c[2][i + 1] - p[2]) * (c[2][i + 1] - p[2])
    + (c[3][i + 1] - p[3]) * (c[3][i + 1] - p[3])

PointAt(c, i) == <<c[1][i + 1], c[2][i + 1], c[3][i + 1]>>

\* C2: on a non-empty centerline find_nearest_centerline_index returns the
\* lowest index among those at minimal raw (unscaled) Euclidean distance to
\* the query point, and 0 when the query point is centerline point 0.
C2_NearestIsFirstMinimum ==
    (pc = "returned" /\ NPoints(centerline_points) >= 1) =>
        /\ result.status = "ok"
        /\ result.index \in 0..(NPoints(centerline_points) - 1)
        /\ \A j \in 0..(NPoints(centerline_points) - 1) :
              SquaredDistance(centerline_points, result.index, point)
                  <= SquaredDistance(centerline_points, j, point)
        /\ \A j \in 0..(result.index - 1) :
              SquaredDistance(centerline_points, j, point)
                  > SquaredDistance(centerline_points, result.index, point)
        /\ (PointAt(centerline_points, 0) = point => result.index = 0)

\* C2 witness: the minimum is attained at two indices, one of them a
\* duplicate point, neither of them index 0, and the lower one is returned.
C2_Witness ==
    /\ pc = "returned"
    /\ NPoints(centerline_points) = 3
    /\ PointAt(centerline_points, 1) = PointAt(centerline_points, 2)
    /\ PointAt(centerline_points, 0) # PointAt(centerline_points, 1)
    /\ point = PointAt(centerline_points, 2)
    /\ result.status = "ok"
    /\ result.index = 1

\* ------------------------------------------- calls of center_of_mass_to_PMJ

\* Longest list of label points.
MaxLabels == 1

LabelLists == UNION {[1..k -> Points] : k \in 0..MaxLabels}

\* The centerline is read with np.genfromtxt from a table of three rows and
\* at least two columns (a single column is read as a one-dimensional array,
\* which is not the 3xn array modelled here).  The participants file may or
\* may not exist.
InitCom ==
    /\ pc = "input"
    /\ centerline_points \in UNION {CenterlinesOfLen(n) : n \in 2..MaxLen}
    /\ labels \in LabelLists
    /\ spacing \in VoxelSizes
    /\ files \in {{}, {"participants_tsv"}}
    /\ z_index = 0
    /\ point = <<0, 0, 0>>
    /\ axis = 0
    /\ spacing2 = spacing
    /\ result = NoResult
    /\ result2 = NoResult
    /\ log = <<>>
    /\ branch = "none"
    /\ runs = 0
    /\ prev = NoPrev
    /\ subject = "none"
    /\ files0 = {}

\* center_of_mass_to_PMJ with both sct_label_utils calls succeeding: the
\* lookups, then the CSV is written, then the participants file is asserted.
CenterOfMassToPMJ ==
    /\ pc = "input"
    /\ LET r == DistancesToPMJ(labels, centerline_points, spacing[1], spacing[2], spacing[3])
       IN  IF r.status # "ok"
           THEN /\ result' = r
                /\ pc' = "raised"
                /\ UNCHANGED files
           ELSE /\ files' = files \cup {"csv_out_path"}
                /\ IF "participants_tsv" \in files
                   THEN result' = r /\ pc' = "returned"
                   ELSE result' = [status |-> "AssertionError", results |-> r.results]
                        /\ pc' = "raised"
    /\ UNCHANGED <<result2, log, branch, runs, prev, subject, files0>>
    /\ InputsUnchanged

NextCom == CenterOfMassToPMJ

SpecCom == InitCom /\ [][NextCom]_vars

\* C3: in center_of_mass_to_PMJ the nearest centerline index of every label
\* point is a column of the cumulative-distance table, so the lookup never
\* goes out of range, and the reported distance is the arc length from that
\* index to the PMJ index (the first index of the maximal third coordinate).
C3_LookupInRange ==
    pc \in {"returned", "raised"} =>
        /\ result.status # "IndexError"
        /\ \A k \in 1..Len(result.results) :
              /\ result.results[k].nearest <= Argmax(centerline_points[3])
              /\ result.results[k].distance_from_pmj_mm =
                     ArcLength(centerline_points, result.results[k].nearest,
                               Argmax(centerline_points[3]), spacing)

\* The extent of the failure: when the third coordinate has its first
\* maximum at the last index, every lookup is in range and reports the arc
\* length to the PMJ index.
LookupInRangeWhenPMJLast ==
    (pc \in {"returned", "raised"}
        /\ Argmax(centerline_points[3]) = NPoints(centerline_points) - 1) =>
        /\ result.status # "IndexError"
        /\ Len(result.results) = Len(labels)
        /\ \A k \in 1..Len(result.results) :
              result.results[k].distance_from_pmj_mm =
                  ArcLength(centerline_points, result.results[k].nearest,
                            Argmax(centerline_points[3]), spacing)

\* ------------------------------------------------- collinear centerlines

\* Longest collinear centerline.
MaxCollinear == 5

\* n points starting at start (a coordinate triple) and moving by step along
\* axis a only.
Collinear(n, start, a, step) ==
    [r \in 1..3 |-> [k \in 1..n |-> IF r = a THEN start[r] + (k - 1) * step ELSE start[r]]]

\* A uniformly spaced collinear centerline (step 1 forwards or backwards
\* along one axis), unit voxel sizes, any index of the centerline.
InitCollinear ==
    /\ pc = "input"
    /\ \E n \in 1..MaxCollinear, start \in Points, step \in {1, -1} :
          /\ axis \in 1..3
          /\ centerline_points = Collinear(n, start, axis, step)
          /\ z_index \in 0..(n - 1)
    /\ spacing = <<1, 1, 1>>
    /\ point = <<0, 0, 0>>
    /\ labels = <<>>
    /\ spacing2 = spacing
    /\ result = NoResult
    /\ result2 = NoResult
    /\ GeometryIdle

SpecCollinear == InitCollinear /\ [][Next]_vars

\* C4: on a uniformly spaced collinear centerline with unit voxel sizes the
\* cumulative distance at every index i of the result is |r - i|, in the
\* model's units of 1/SqrtScale.
C4_CollinearDistance ==
    pc = "returned" =>
        /\ result.status = "ok"
        /\ Len(result.table[1]) = z_index + 1
        /\ \A i \in 0..z_index :
              Item(result.table[1], i) = Abs(z_index - i) * SqrtScale

\* C4 witness: the stated example, [(0,0,0),(0,0,1),(0,0,2),(0,0,3)] with
\* r = 3, gives [3,2,1,0].
C4_Witness ==
    /\ pc = "returned"
    /\ centerline_points = <<<<0, 0, 0, 0>>, <<0, 0, 0, 0>>, <<0, 1, 2, 3>>>>
    /\ z_index = 3
    /\ result.status = "ok"
    /\ result.table[1] = <<3 * SqrtScale, 2 * SqrtScale, SqrtScale, 0>>

\* ------------------------------------------------ single-axis centerlines

\* A centerline whose points differ along axis a only.
SingleAxis(a) ==
    {c \in UNION {CenterlinesOfLen(n) : n \in 1..MaxLen} :
        \A r \in (1..3) \ {a} : \A k \in 1..NPoints(c) : c[r][k] = c[r][1]}

\* sp with the size of axis a doubled.
Doubled(sp, a) == [r \in 1..3 |-> IF r = a THEN 2 * sp[r] ELSE sp[r]]

\* The second call doubles the voxel size of the axis of movement, or
\* changes the voxel sizes of the other two axes.
InitScaling ==
    /\ pc = "input"
    /\ axis \in 1..3
    /\ centerline_points \in SingleAxis(axis)
    /\ z_index \in 0..(NPoints(centerline_points) - 1)
    /\ spacing \in VoxelSizes
    /\ spacing2 \in {Doubled(spacing, axis)}
                     \cup {sp \in VoxelSizes : sp[axis] = spacing[axis] /\ sp # spacing}
    /\ point = <<0, 0, 0>>
    /\ labels = <<>>
    /\ result = NoResult
    /\ result2 = NoResult
    /\ GeometryIdle

GetDistanceRescaled ==
    /\ pc = "returned"
    /\ result2' = get_distance_from_pmj(centerline_points, z_index,
                                         spacing2[1], spacing2[2], spacing2[3])
    /\ pc' = "compared"
    /\ UNCHANGED result
    /\ InputsUnchanged
    /\ PipelineUnchanged

NextScaling == GetDistance \/ GetDistanceRescaled

SpecScaling == InitScaling /\ [][NextScaling]_vars

\* C5: for a centerline that moves along one axis only, doubling the voxel
\* size of that axis doubles every cumulative distance, and changing the
\* voxel size of either other axis changes none.
C5_Scaling ==
    pc = "compared" =>
        /\ result.status = "ok"
        /\ result2.status = "ok"
        /\ Len(result2.table[1]) = Len(result.table[1])
        /\ \A i \in 1..Len(result.table[1]) :
              IF spacing2 = Doubled(spacing, axis)
              THEN result2.table[1][i] = 2 * result.table[1][i]
              ELSE result2.table[1][i] = result.table[1][i]

\* C5 witness: a centerline that moves, measured twice with the voxel size
\* of its axis doubled, has a non-zero distance doubled.
C5_Witness ==
    /\ pc = "compared"
    /\ spacing2 = Doubled(spacing, axis)
    /\ z_index >= 2
    /\ result.table[1][1] > result.table[1][2]
    /\ result.table[1][2] > 0
    /\ result2.table[1][1] = 2 * result.table[1][1]

\* C5 witness of the other half: the voxel sizes of both other axes changed
\* and a non-zero distance stayed.
C5_WitnessOtherAxes ==
    /\ pc = "compared"
    /\ spacing2[axis] = spacing[axis]
    /\ \A r \in (1..3) \ {axis} : spacing2[r] # spacing[r]
    /\ result.table[1][1] > 0
    /\ result2.table[1] = result.table[1]

\* -------------------------------------------------------- rootlets.main

\* Most main calls in a row.
MaxRuns == 3

\* The files main names.  The destination folder results/tables/rootlets is
\* an existing directory.
PMJ_rootlets_dist_src == "subject_dir/label-rootlets_dseg_modif_pmj_distance.csv"
PMJ_vertlevels_dist_src == "subject_dir/labels-disc_step1_levels_pmj_distance_vertebral_disc.csv"
old_path == "dst_folder/label-rootlets_dseg_modif_pmj_distance.csv"
new_path == "dst_folder/label-rootlets_dseg_modif_pmj_distance_rootlets.csv"
vertlevels_dst == "dst_folder/labels-disc_step1_levels_pmj_distance_vertebral_disc.csv"
spinal_levels_csv == "dst_folder/label-rootlets_center_of_mass_spinal_levels_pmj_distance.csv"
csv_out_path == "dst_folder/label-rootlets_center_of_mass_vert_levels_pmj_distance.csv"
participants_tsv == "data_path/participants.tsv"

\* The first call handed the output path of the second.
SpinalLevelsOutCopied == csv_out_path

\* The csv_out_path argument of the first and of the second
\* center_of_mass_to_PMJ call.
SpinalLevelsOut == spinal_levels_csv
VertLevelsOut == csv_out_path

\* The test made on the spinal-levels CSV instead of the vert-levels one.
SkipMarkerSpinal == spinal_levels_csv

\* The file whose existence makes main skip the processing.
SkipMarker == csv_out_path

NoGeometry ==
    /\ centerline_points = <<<<>>, <<>>, <<>>>>
    /\ z_index = 0
    /\ spacing = <<1, 1, 1>>
    /\ point = <<0, 0, 0>>
    /\ labels = <<>>
    /\ axis = 0
    /\ spacing2 = <<1, 1, 1>>
    /\ result = NoResult
    /\ result2 = NoResult

GeometryUnchanged ==
    UNCHANGED <<centerline_points, z_index, spacing, point, labels, axis, spacing2,
                result, result2>>

\* The results folder holds no output; the subject folder may hold CSVs of
\* an earlier run of the external scripts; participants.tsv may be missing.
InitRootlets ==
    /\ pc = "idle"
    /\ files \in SUBSET {PMJ_rootlets_dist_src, PMJ_vertlevels_dist_src, participants_tsv}
    /\ files0 = {}
    /\ log = <<>>
    /\ branch = "none"
    /\ runs = 0
    /\ prev = NoPrev
    /\ subject = "sub-001"
    /\ NoGeometry

\* A step ended without raising: on to the next one.
Continue(step, next) ==
    /\ log' = Append(log, [step |-> step, ok |-> TRUE])
    /\ pc' = next
    /\ UNCHANGED <<branch, runs, prev, subject, files0>>
    /\ GeometryUnchanged

\* A step raised (subprocess.run(check=True) raises CalledProcessError on a
\* non-zero exit): main ends there.
Raise(step) ==
    /\ log' = Append(log, [step |-> step, ok |-> FALSE])
    /\ pc' = "idle"
    /\ prev' = [outcome |-> "raised", branch |-> branch]
    /\ UNCHANGED <<branch, runs, subject, files0>>
    /\ GeometryUnchanged

\* main is called: the paths, then the test of csv_out_path.
RootletsStart ==
    /\ pc = "idle"
    /\ runs < MaxRuns
    /\ runs' = runs + 1
    /\ files0' = files
    /\ log' = <<>>
    /\ IF SkipMarker \notin files
       THEN branch' = "process" /\ pc' = "zeroing"
       ELSE branch' = "skip" /\ pc' = "figure_all"
    /\ UNCHANGED <<files, prev, subject>>
    /\ GeometryUnchanged

Zeroing ==
    /\ pc = "zeroing"
    /\ \/ Continue("zeroing", "rootlets_to_spinal_levels") /\ UNCHANGED files
       \/ Raise("zeroing") /\ UNCHANGED files

\* 02a_rootlets_to_spinal_levels.py saves the rootlets PMJ-distance CSV in
\* the subject folder.
RootletsToSpinalLevels ==
    /\ pc = "rootlets_to_spinal_levels"
    /\ \/ /\ Continue("rootlets_to_spinal_levels", "discs_to_vertebral_levels")
          /\ files' = files \cup {PMJ_rootlets_dist_src}
       \/ Raise("rootlets_to_spinal_levels") /\ UNCHANGED files

\* discs_to_vertebral_levels.py saves the vertebral-disc PMJ-distance CSV in
\* the subject folder.
DiscsToVertebralLevels ==
    /\ pc = "discs_to_vertebral_levels"
    /\ \/ /\ Continue("discs_to_vertebral_levels", "move_rootlets")
          /\ files' = files \cup {PMJ_vertlevels_dist_src}
       \/ Raise("discs_to_vertebral_levels") /\ UNCHANGED files

\* shutil.move(src, folder): raises when folder already holds a file of that
\* name (or src is missing), else the file changes place.
CanMove(src, dst) == dst \notin files /\ src \in files

Moved(src, dst) == (files \ {src}) \cup {dst}

MoveRootlets ==
    /\ pc = "move_rootlets"
    /\ IF CanMove(PMJ_rootlets_dist_src, old_path)
       THEN /\ Continue("move_rootlets", "move_vertlevels")
            /\ files' = Moved(PMJ_rootlets_dist_src, old_path)
       ELSE Raise("move_rootlets") /\ UNCHANGED files

MoveVertLevels ==
    /\ pc = "move_vertlevels"
    /\ IF CanMove(PMJ_vertlevels_dist_src, vertlevels_dst)
       THEN /\ Continue("move_vertlevels", "rename")
            /\ files' = Moved(PMJ_vertlevels_dist_src, vertlevels_dst)
       ELSE Raise("move_vertlevels") /\ UNCHANGED files

\* os.rename(old_path, new_path) replaces an existing new_path.
Rename ==
    /\ pc = "rename"
    /\ IF old_path \in files
       THEN /\ Continue("rename", "com_spinal_levels")
            /\ files' = (files \ {old_path}) \cup {new_path}
       ELSE Raise("rename") /\ UNCHANGED files

\* A center_of_mass_to_PMJ call as main sees it: it raises before it writes
\* (sct_label_utils, the images, the lookup), or writes csv_out and then
\* asserts that the participants file exists.
CenterOfMassCall(step, next, csv_out) ==
    \/ Raise(step) /\ UNCHANGED files
    \/ /\ files' = files \cup {csv_out}
       /\ IF participants_tsv \in files THEN Continue(step, next) ELSE Raise(step)

ComSpinalLevels ==
    /\ pc = "com_spinal_levels"
    /\ CenterOfMassCall("com_spinal_levels", "com_vert_levels", SpinalLevelsOut)

ComVertLevels ==
    /\ pc = "com_vert_levels"
    /\ CenterOfMassCall("com_vert_levels", "figure_all", VertLevelsOut)

FigureAll ==
    /\ pc = "figure_all"
    /\ UNCHANGED files
    /\ \/ Continue("figure_all", "figure_F")
       \/ Raise("figure_all")

FigureF ==
    /\ pc = "figure_F"
    /\ UNCHANGED files
    /\ \/ Continue("figure_F", "figure_M")
       \/ Raise("figure_F")

\* The last statement of main.
FigureM ==
    /\ pc = "figure_M"
    /\ UNCHANGED files
    /\ \/ /\ log' = Append(log, [step |-> "figure_M", ok |-> TRUE])
          /\ pc' = "idle"
          /\ prev' = [outcome |-> "completed", branch |-> branch]
          /\ UNCHANGED <<branch, runs, subject, files0>>
          /\ GeometryUnchanged
       \/ Raise("figure_M")

NextRootlets ==
    \/ RootletsStart
    \/ Zeroing
    \/ RootletsToSpinalLevels
    \/ DiscsToVertebralLevels
    \/ MoveRootlets
    \/ MoveVertLevels
    \/ Rename
    \/ ComSpinalLevels
    \/ ComVertLevels
    \/ FigureAll
    \/ FigureF
    \/ FigureM

SpecRootlets == InitRootlets /\ [][NextRootlets]_vars

\* The order the processing steps and the figure runs are stated to have.
StatedProcessing ==
    <<"zeroing", "rootlets_to_spinal_levels", "discs_to_vertebral_levels",
      "move_rootlets", "move_vertlevels", "rename",
      "com_spinal_levels", "com_vert_levels">>

StatedFigures == <<"figure_all", "figure_F", "figure_M">>

IsPrefix(s, t) == Len(s) <= Len(t) /\ \A k \in 1..Len(s) : s[k] = t[k]

LogSteps == [k \in 1..Len(log) |-> log[k].step]

MainRunning == pc # "idle"

\* C6: when csv_out_path exists as main starts no processing step runs;
\* otherwise the steps run in the stated order, each only after the previous
\* one succeeded; in both cases the three figure runs follow (all, F, M); and
\* a main call after one that completed skips the processing.
C6_SkipIfOutputExists ==
    runs > 0 =>
        /\ LET expected == IF csv_out_path \in files0
                           THEN StatedFigures
                           ELSE StatedProcessing \o StatedFigures
           IN  /\ IsPrefix(LogSteps, expected)
               /\ \A k \in 1..(Len(log) - 1) : log[k].ok
               /\ (Len(log) > 0 /\ ~log[Len(log)].ok) => ~MainRunning
               /\ (MainRunning /\ Len(log) < Len(expected)) => pc = expected[Len(log) + 1]
               /\ (~MainRunning /\ prev.outcome = "completed") => LogSteps = expected
        /\ (MainRunning /\ prev.outcome = "completed") =>
               (branch = "skip" /\ csv_out_path \in files0)

\* C6 witness: the call after one that ran all the processing and completed
\* has skipped the processing and run two of the three figure runs.
C6_Witness ==
    /\ runs = 2
    /\ pc = "figure_M"
    /\ prev = [outcome |-> "completed", branch |-> "process"]
    /\ branch = "skip"
    /\ LogSteps = <<"figure_all", "figure_F">>

\* C10: whenever csv_out_path, the file whose existence makes main skip, is
\* in the results folder, so are the renamed rootlets PMJ-distance CSV, the
\* moved vertebral-disc PMJ-distance CSV and the spinal-levels
\* center-of-mass CSV.
C10_MarkerWrittenLast ==
    csv_out_path \in files =>
        {new_path, vertlevels_dst, spinal_levels_csv} \subseteq files

\* C10 witness: a call wrote the marker and then raised in a figure run.
C10_Witness ==
    /\ csv_out_path \in files
    /\ pc = "idle"
    /\ prev = [outcome |-> "raised", branch |-> "process"]
    /\ Len(log) > Len(StatedProcessing)

\* ------------------------------------------------------ T2starw_CSA.main

Subjects == {"sub-001", "sub-002", "sub-003"}

\* Files of T2starw_CSA.py, as <<folder or subject, name>>.
output_csv_filename(s) == <<s, "T2starw_CSA.csv">>
morphometrics_csv(s) == <<s, "vert_level_morphometrics.csv">>
participants_info == <<"data_path", "participants.tsv">>

\* def compute_morphometrics(...): its parameters, and those without a default.
ComputeMorphometricsParams ==
    {"level_type", "output_csv_filename", "participants_info", "t2starw_seg_file",
     "label_file", "levels", "perlevel", "perslice"}

ComputeMorphometricsRequired ==
    {"level_type", "output_csv_filename", "participants_info", "t2starw_seg_file",
     "label_file", "levels"}

\* The three calls of main, in order: the keyword arguments of each.
MorphometricsCalls ==
    [sc |-> [level_type |-> "VertLevel", output_csv_filename |-> "vert_level_morphometrics.csv",
             participants_info |-> "participants.tsv", t2w_seg_file |-> "label-SC_mask",
             label_file |-> "label-SC_mask_labeled", levels |-> "2:5",
             perlevel |-> "1", perslice |-> "0"],
     gm |-> [level_type |-> "VertLevel", output_csv_filename |-> "vert_level_morphometrics.csv",
             participants_info |-> "participants.tsv", t2w_seg_file |-> "label-GM_mask",
             label_file |-> "label-SC_mask_labeled", levels |-> "2:5",
             perlevel |-> "1", perslice |-> "0"],
     wm |-> [level_type |-> "VertLevel", output_csv_filename |-> "vert_level_morphometrics.csv",
             participants_info |-> "participants.tsv", t2w_seg_file |-> "label-WM_mask",
             label_file |-> "label-SC_mask_labeled", levels |-> "2:5",
             perlevel |-> "1", perslice |-> "0"]]

AfterCall == [sc |-> "gm", gm |-> "wm", wm |-> "idle"]

\* Python binds a call's keyword arguments to the parameters: a keyword that
\* names no parameter, or a parameter without default left out, raises
\* TypeError before the body runs.
Binds(kwargs) ==
    /\ DOMAIN kwargs \subseteq ComputeMorphometricsParams
    /\ ComputeMorphometricsRequired \subseteq DOMAIN kwargs

InitT2star ==
    /\ pc = "idle"
    /\ files \in SUBSET ({output_csv_filename(s) : s \in Subjects} \cup {participants_info})
    /\ files0 = {}
    /\ log = <<>>
    /\ branch = "none"
    /\ runs = 0
    /\ prev = NoPrev
    /\ subject \in Subjects
    /\ NoGeometry

\* main(subject, ...): the paths, os.makedirs, then the test of the final CSV.
T2starStart ==
    /\ pc = "idle"
    /\ runs < MaxRuns
    /\ runs' = runs + 1
    /\ subject' \in Subjects
    /\ files0' = files
    /\ log' = <<>>
    /\ IF output_csv_filename(subject') \in files
       THEN /\ branch' = "skip"
            /\ pc' = "idle"
            /\ prev' = [outcome |-> "completed", branch |-> "skip", subject |-> subject']
       ELSE /\ branch' = "process"
            /\ pc' = "sc"
            /\ UNCHANGED prev
    /\ UNCHANGED files
    /\ GeometryUnchanged

\* One compute_morphometrics(...) call of main: the binding of the
\* arguments, then the body: sct_process_segmentation writes the CSV, the
\* CSV and the participants file are read, the merged table is written.
CallComputeMorphometrics ==
    /\ pc \in {"sc", "gm", "wm"}
    /\ LET kwargs == MorphometricsCalls[pc]
           ended(outcome) == prev' = [outcome |-> outcome, branch |-> branch,
                                      subject |-> subject]
       IN  IF ~Binds(kwargs)
           THEN /\ pc' = "idle"
                /\ ended("TypeError")
                /\ UNCHANGED <<files, log>>
           ELSE /\ log' = Append(log, [tool |-> "sct_process_segmentation",
                                        i |-> kwargs.t2starw_seg_file,
                                        vert |-> kwargs.levels,
                                        vertfile |-> kwargs.label_file,
                                        perlevel |-> kwargs.perlevel,
                                        perslice |-> kwargs.perslice,
                                        o |-> kwargs.output_csv_filename])
                /\ files' = files \cup {morphometrics_csv(subject)}
                /\ IF participants_info \notin files
                   THEN pc' = "idle" /\ ended("FileNotFoundError")
                   ELSE /\ pc' = AfterCall[pc]
                        /\ IF AfterCall[pc] = "idle" THEN ended("completed")
                           ELSE UNCHANGED prev
    /\ UNCHANGED <<branch, runs, subject, files0>>
    /\ GeometryUnchanged

NextT2star == T2starStart \/ CallComputeMorphometrics

SpecT2star == InitT2star /\ [][NextT2star]_vars

\* C7: main is idempotent per subject: a main call that went through the
\* processing of a subject leaves the subject's final CSV, so the next main
\* call for that subject skips: it never enters the processing again.
C7_LaterCallSkips ==
    ~(/\ pc \in {"sc", "gm", "wm"}
      /\ prev.outcome # "none"
      /\ prev.subject = subject
      /\ prev.branch = "process")

\* C8: a main call that does not find the final CSV calls
\* compute_morphometrics, and through it sct_process_segmentation, three
\* times, for the spinal cord, gray matter and white matter masks in that
\* order, each with the labeled segmentation, levels 2:5, perlevel 1 and
\* perslice 0, and each call runs to completion and leaves its CSV.
C8_ThreeMorphometrics ==
    (pc = "idle" /\ branch = "process") =>
        /\ prev.outcome = "completed"
        /\ Len(log) = 3
        /\ <<log[1].i, log[2].i, log[3].i>> = <<"label-SC_mask", "label-GM_mask", "label-WM_mask">>
        /\ \A k \in 1..3 :
              /\ log[k].vertfile = "label-SC_mask_labeled"
              /\ log[k].vert = "2:5"
              /\ log[k].perlevel = "1"
              /\ log[k].perslice = "0"
        /\ morphometrics_csv(subject) \in files

=============================================================================
